---------------------------- MODULE Spec2Model ----------------------------
(***************************************************************************)
(* Model of leanconstruction.py: the lean-construction schedule simulator. *)
(*                                                                         *)
(* Numbers.  lean_improvement is the rational L / LeanDen, a random draw   *)
(* is d / ProbDen, and every time is counted in units of                   *)
(* 1 / (LeanDen * ProbDen) day, so that 5 * (1 - lean_improvement) days    *)
(* and delay_factor * draw are integers.  Arithmetic is exact (Python's    *)
(* float rounding is not modelled).                                        *)
(*                                                                         *)
(* Randomness.  The module-level `random` generator is one process-wide    *)
(* state: a tape of draws fixed when the process starts (its seed) and a   *)
(* position every draw advances.  Every tape over Draws is a seed.         *)
(*                                                                         *)
(* Task names are written without diacritics (Inspecao for "Inspeção").    *)
(***************************************************************************)
EXTENDS Integers, Sequences, FiniteSets, TLC

\* lean_improvement values are L / LeanDen
LeanDen == 2
\* probabilities and draws are tenths: 0.8 = 8 / ProbDen
ProbDen == 10
\* period of the modelled generator
TapeLen == 3
\* Monte Carlo iterations explored
MaxSims == 2
\* Python's recursion limit, scaled down
RecursionLimit == 5
\* num_sim when the prompt's answer does not parse
DefaultNumSims == 1000

Days(n) == n * LeanDen * ProbDen

\* values random.random() returns, as numerators over ProbDen
Draws == {0, 7, 9}

Seeds == [1..TapeLen -> Draws]

\* lean_improvement values a caller may pass, in range and out of range
LeanValues == (-1)..(LeanDen + 1)

NumSimValues == (-1)..MaxSims

InRange(L) == 0 <= L /\ L <= LeanDen

---------------------------------------------------------------------------
(* helpers *)

RECURSIVE SumSeq(_)
SumSeq(s) == IF s = <<>> THEN 0 ELSE Head(s) + SumSeq(Tail(s))

MaxOf(S) == CHOOSE x \in S : \A y \in S : y <= x

MinOf(S) == CHOOSE x \in S : \A y \in S : x <= y

Range(s) == {s[i] : i \in 1..Len(s)}

---------------------------------------------------------------------------
(* class Task *)

Task(name, base_duration, value_added, delay_factor, delay_probability, dependencies) ==
    [name |-> name, base_duration |-> base_duration, value_added |-> value_added,
     delay_factor |-> delay_factor, delay_probability |-> delay_probability,
     dependencies |-> dependencies]

\* random.random(): the draw at the generator's position, which advances
Random(g) ==
    [value |-> g.tape[g.pos + 1], rng |-> [g EXCEPT !.pos = (g.pos + 1) % TapeLen]]

\* random.uniform(a, b) = a + (b - a) * random.random()
Uniform(a, b, g) ==
    LET r == Random(g)
    IN  [value |-> a + ((b - a) * r.value) \div ProbDen, rng |-> r.rng, draw |-> r.value]

SampleAlwaysDraws(task, g) ==
    LET r1 == Random(g)
        u  == Uniform(0, task.delay_factor, r1.rng)
    IN  [duration |-> task.base_duration + u.value, rng |-> u.rng,
         drawn |-> <<r1.value, u.draw>>]

\* Task.simulate_duration; drawn lists the draws the call consumed
simulate_duration(task, g) ==
    IF ~task.value_added /\ task.delay_factor > 0
    THEN LET r1 == Random(g)
         IN  IF r1.value < task.delay_probability
             THEN LET u == Uniform(0, task.delay_factor, r1.rng)
                  IN  [duration |-> task.base_duration + u.value, rng |-> u.rng,
                       drawn |-> <<r1.value, u.draw>>]
             ELSE [duration |-> task.base_duration, rng |-> r1.rng,
                   drawn |-> <<r1.value>>]
    ELSE [duration |-> task.base_duration, rng |-> g, drawn |-> <<>>]

---------------------------------------------------------------------------
(* simulate_project *)

DelayFactorUnscaled(days, L) == days * LeanDen * ProbDen

\* days * (1 - lean_improvement): days * (1 - L/LeanDen) days are
\* days * (LeanDen - L) * ProbDen units
DelayFactor(days, L) == days * (LeanDen - L) * ProbDen

\* tasks = [...]: the task list of the project
ProjectTasks(L) ==
    << Task("Planejamento", Days(20), TRUE, 0, ProbDen, <<>>),
       Task("Licenciamento", Days(10), FALSE, DelayFactor(5, L), 8, <<"Planejamento">>),
       Task("Mobilizacao", Days(5), FALSE, DelayFactor(3, L), 7, <<"Licenciamento">>),
       Task("Escavacao", Days(15), TRUE, 0, ProbDen, <<"Mobilizacao">>),
       Task("Estrutura", Days(25), TRUE, 0, ProbDen, <<"Escavacao">>),
       Task("Alvenaria", Days(20), TRUE, 0, ProbDen, <<"Estrutura">>),
       Task("Instalacoes", Days(10), TRUE, 0, ProbDen, <<"Estrutura">>),
       Task("Acabamentos", Days(10), TRUE, 0, ProbDen, <<"Alvenaria", "Instalacoes">>),
       Task("Inspecao", Days(5), TRUE, 0, ProbDen, <<"Acabamentos">>) >>

\* {task.name: task for task in tasks}: the last task of a name wins
tasks_by_name(tasks) ==
    [n \in {tasks[i].name : i \in 1..Len(tasks)} |->
        tasks[MaxOf({i \in 1..Len(tasks) : tasks[i].name = n})]]

\* visit(task) and its loop over task.dependencies, from dependency i on.
\* st holds the closure's seen and order; depth is the number of visit
\* frames on the stack.
RECURSIVE visit(_, _, _, _)
RECURSIVE visitDeps(_, _, _, _, _)
visit(byName, task, st, depth) ==
    IF depth > RecursionLimit
    THEN [st EXCEPT !.error = "RecursionError"]
    ELSE LET after == visitDeps(byName, task, 1, st, depth)
         IN  IF after.error # "none" THEN after
             ELSE IF task.name \notin after.seen
                  THEN [after EXCEPT !.seen = @ \cup {task.name},
                                     !.order = Append(@, task)]
                  ELSE after

visitDeps(byName, task, i, st, depth) ==
    IF i > Len(task.dependencies) \/ st.error # "none" THEN st
    ELSE LET dep == task.dependencies[i]
             st1 == IF dep \in st.seen THEN st
                    ELSE IF dep \notin DOMAIN byName
                         THEN [st EXCEPT !.error = "KeyError"]
                         ELSE visit(byName, byName[dep], st, depth + 1)
         IN  visitDeps(byName, task, i + 1, st1, depth)

\* for task in tasks: visit(task)
RECURSIVE visitAll(_, _, _, _)
visitAll(byName, tasks, i, st) ==
    IF i > Len(tasks) \/ st.error # "none" THEN st
    ELSE visitAll(byName, tasks, i + 1, visit(byName, tasks[i], st, 1))

TopologicalOrder(tasks) ==
    visitAll(tasks_by_name(tasks), tasks, 1,
             [seen |-> {}, order |-> <<>>, error |-> "none"])

\* the schedule dict, in insertion order
HasEntry(schedule, name) == \E i \in 1..Len(schedule) : schedule[i].name = name

Entry(schedule, name) ==
    schedule[CHOOSE i \in 1..Len(schedule) : schedule[i].name = name]

PutEntry(schedule, e) ==
    IF HasEntry(schedule, e.name)
    THEN [i \in 1..Len(schedule) |->
             IF schedule[i].name = e.name THEN e ELSE schedule[i]]
    ELSE Append(schedule, e)

StartTimeMin(schedule, task) ==
    IF task.dependencies # <<>>
    THEN MinOf({Entry(schedule, dep).finish : dep \in Range(task.dependencies)})
    ELSE 0

\* start_time: the maximum finish of the dependencies, or 0
StartTime(schedule, task) ==
    IF task.dependencies # <<>>
    THEN MaxOf({Entry(schedule, dep).finish : dep \in Range(task.dependencies)})
    ELSE 0

\* for task in order: ... schedule[task.name] = (...)
RECURSIVE ForwardPass(_, _, _)
ForwardPass(order, i, st) ==
    IF i > Len(order) THEN st
    ELSE LET task == order[i]
             start_time == StartTime(st.schedule, task)
             s == simulate_duration(task, st.rng)
             finish_time == start_time + s.duration
         IN  ForwardPass(order, i + 1,
                 [schedule |-> PutEntry(st.schedule,
                                  [name |-> task.name, start |-> start_time,
                                   finish |-> finish_time, duration |-> s.duration,
                                   value_added |-> task.value_added,
                                   base_duration |-> task.base_duration]),
                  drawn |-> Append(st.drawn,
                               [name |-> task.name, draws |-> s.drawn,
                                before |-> st.rng.pos, after |-> s.rng.pos]),
                  rng |-> s.rng])

TotalDurationLastListed(schedule) ==
    schedule[Len(schedule) - 1].finish

\* schedule["Inspeção"][1] if present, else the maximum finish
TotalDuration(schedule) ==
    IF HasEntry(schedule, "Inspecao")
    THEN Entry(schedule, "Inspecao").finish
    ELSE MaxOf({schedule[i].finish : i \in 1..Len(schedule)})

TotalValueAddedAllTasks(tasks) ==
    SumSeq([i \in 1..Len(tasks) |-> tasks[i].base_duration])

\* sum(task.base_duration for task in tasks if task.value_added)
TotalValueAdded(tasks) ==
    SumSeq([i \in 1..Len(tasks) |->
               IF tasks[i].value_added THEN tasks[i].base_duration ELSE 0])

NoRun ==
    [called |-> FALSE, tasks |-> <<>>, order |-> <<>>, schedule |-> <<>>,
     drawn |-> <<>>, total_duration |-> 0, total_value_added |-> 0,
     efficiency |-> [num |-> 0, den |-> 1], error |-> "none"]

\* the body of simulate_project after the task list: ordering, forward
\* pass and totals.  efficiency is the fraction num / den.
Schedule(tasks, g) ==
    LET topo == TopologicalOrder(tasks)
    IN  IF topo.error # "none"
        THEN [run |-> [NoRun EXCEPT !.called = TRUE, !.tasks = tasks,
                                    !.error = topo.error],
              rng |-> g]
        ELSE LET order == [i \in 1..Len(topo.order) |-> topo.order[i]]
                 fp == ForwardPass(order, 1,
                           [schedule |-> <<>>, drawn |-> <<>>, rng |-> g])
             IN  IF fp.schedule = <<>>
                 THEN [run |-> [NoRun EXCEPT !.called = TRUE, !.tasks = tasks,
                                             !.error = "ValueError"],
                       rng |-> fp.rng]
                 ELSE LET total_duration == TotalDuration(fp.schedule)
                          total_value_added == TotalValueAdded(tasks)
                      IN  [run |-> [called |-> TRUE, tasks |-> tasks, order |-> order,
                                    schedule |-> fp.schedule, drawn |-> fp.drawn,
                                    total_duration |-> total_duration,
                                    total_value_added |-> total_value_added,
                                    efficiency |-> [num |-> 100 * total_value_added,
                                                    den |-> total_duration],
                                    error |-> IF total_duration = 0
                                              THEN "ZeroDivisionError" ELSE "none"],
                           rng |-> fp.rng]

simulate_project(L, g) == Schedule(ProjectTasks(L), g)

---------------------------------------------------------------------------
(* run_monte_carlo_simulation *)

NoMC == [i |-> 0, total_duration |-> 0, total_value_added |-> 0, durations |-> <<>>]

NoStats ==
    [printed |-> FALSE, num_simulations |-> 0,
     avg_duration |-> [num |-> 0, den |-> 1],
     avg_value_added |-> [num |-> 0, den |-> 1],
     efficiency |-> [num |-> 0, den |-> 1],
     min_duration |-> 0, max_duration |-> 0]

LoopBodyOverwrites(m, r) ==
    [i |-> m.i + 1,
     total_duration |-> r.total_duration,
     total_value_added |-> m.total_value_added + r.total_value_added,
     durations |-> Append(m.durations, r.total_duration)]

\* the loop body: total_duration += dur; total_value_added += val;
\* durations.append(dur)
LoopBody(m, r) ==
    [i |-> m.i + 1,
     total_duration |-> m.total_duration + r.total_duration,
     total_value_added |-> m.total_value_added + r.total_value_added,
     durations |-> Append(m.durations, r.total_duration)]

\* the statements after the loop: the averages, the efficiency and the
\* printed report.  A fraction num / den stands for each division.
Report(m, num_simulations) ==
    IF num_simulations = 0
    THEN [error |-> "ZeroDivisionError", stats |-> NoStats]
    ELSE LET avg_duration == [num |-> m.total_duration, den |-> num_simulations]
             avg_value_added == [num |-> m.total_value_added, den |-> num_simulations]
         IN  IF avg_duration.num = 0
             THEN [error |-> "ZeroDivisionError", stats |-> NoStats]
             ELSE IF m.durations = <<>>
                  THEN [error |-> "ValueError", stats |-> NoStats]
                  ELSE [error |-> "none",
                        stats |-> [printed |-> TRUE,
                                   num_simulations |-> num_simulations,
                                   avg_duration |-> avg_duration,
                                   avg_value_added |-> avg_value_added,
                                   efficiency |-> [num |-> 100 * avg_value_added.num,
                                                   den |-> avg_duration.num],
                                   min_duration |-> MinOf(Range(m.durations)),
                                   max_duration |-> MaxOf(Range(m.durations))]]

---------------------------------------------------------------------------
(* the process *)

VARIABLES
    pc,          \* "idle", "mc_loop", "returned" or "failed"
    rng,         \* the process-wide generator: [tape, pos]
    call,        \* the entry point running or last run, and its arguments
    run,         \* the locals of the latest simulate_project call
    mc,          \* the locals of run_monte_carlo_simulation
    stats,       \* the report run_monte_carlo_simulation printed
    error,       \* the exception the call raised, or "none"
    firstRun     \* the first schedule run_detailed_simulation printed

vars == <<pc, rng, call, run, mc, stats, error, firstRun>>

NoCall ==
    [entry |-> "none", via |-> "none", num_simulations |-> 0, lean_improvement |-> 0]

NoFirst == [called |-> FALSE, seed |-> <<>>, lean_improvement |-> 0, schedule |-> <<>>]

Init ==
    /\ pc = "idle"
    /\ rng \in [tape : Seeds, pos : {0}]
    /\ call = NoCall
    /\ run = NoRun
    /\ mc = NoMC
    /\ stats = NoStats
    /\ error = "none"
    /\ firstRun = NoFirst

CanCall == pc = "idle"

\* one whole call of simulate_project outside the Monte Carlo loop
SingleRun(entry, via, L) ==
    LET r == simulate_project(L, rng)
    IN  /\ run' = r.run
        /\ rng' = r.rng
        /\ call' = [entry |-> entry, via |-> via, num_simulations |-> 0,
                    lean_improvement |-> L]
        /\ error' = r.run.error
        /\ pc' = IF r.run.error = "none" THEN "returned" ELSE "failed"
        /\ mc' = NoMC
        /\ stats' = NoStats

\* run_monte_carlo_simulation up to its loop
StartMonteCarlo(via, n, L) ==
    /\ call' = [entry |-> "run_monte_carlo_simulation", via |-> via,
                num_simulations |-> n, lean_improvement |-> L]
    /\ mc' = NoMC
    /\ stats' = NoStats
    /\ run' = NoRun
    /\ error' = "none"
    /\ pc' = "mc_loop"
    /\ UNCHANGED <<rng, firstRun>>

\* main, choice "1": run_detailed_simulation()
MainDetailed ==
    /\ CanCall
    /\ SingleRun("run_detailed_simulation", "cli", 0)
    /\ firstRun' = IF firstRun.called THEN firstRun
                   ELSE [called |-> TRUE, seed |-> rng.tape, lean_improvement |-> 0,
                         schedule |-> run'.schedule]

\* what the user may type at a prompt: a number of ValueSet, or text that
\* does not parse
Answers(ValueSet) ==
    {[parses |-> TRUE, value |-> v] : v \in ValueSet}
        \cup {[parses |-> FALSE, value |-> 0]}

\* main, choice "2": both prompts, then run_monte_carlo_simulation
MainMonteCarlo ==
    /\ CanCall
    /\ \E numAnswer \in Answers(NumSimValues), impAnswer \in Answers(LeanValues) :
          LET num_sim == IF numAnswer.parses THEN numAnswer.value ELSE DefaultNumSims
              improvement ==
                  IF impAnswer.parses
                  THEN IF impAnswer.value < 0 \/ impAnswer.value > LeanDen
                       THEN 0 ELSE impAnswer.value
                  ELSE 0
          IN  StartMonteCarlo("cli", num_sim, improvement)

\* main, any other choice
MainInvalid ==
    /\ CanCall
    /\ call' = [entry |-> "main", via |-> "cli", num_simulations |-> 0,
                lean_improvement |-> 0]
    /\ pc' = "returned"
    /\ run' = NoRun
    /\ mc' = NoMC
    /\ stats' = NoStats
    /\ error' = "none"
    /\ UNCHANGED <<rng, firstRun>>

\* a caller of the module calls simulate_project(True, lean_improvement)
CallSimulateProject ==
    /\ CanCall
    /\ \E L \in LeanValues : SingleRun("simulate_project", "api", L)
    /\ UNCHANGED firstRun

\* a caller of the module calls run_monte_carlo_simulation
CallMonteCarlo ==
    /\ CanCall
    /\ \E n \in NumSimValues, L \in LeanValues : StartMonteCarlo("api", n, L)

\* one iteration of `for _ in range(num_simulations)`
MonteCarloIterate ==
    /\ pc = "mc_loop"
    /\ mc.i < call.num_simulations
    /\ mc.i < MaxSims
    /\ LET r == simulate_project(call.lean_improvement, rng)
       IN  /\ run' = r.run
           /\ rng' = r.rng
           /\ IF r.run.error = "none"
              THEN /\ mc' = LoopBody(mc, r.run)
                   /\ UNCHANGED <<pc, error>>
              ELSE /\ pc' = "failed"
                   /\ error' = r.run.error
                   /\ UNCHANGED mc
    /\ UNCHANGED <<call, stats, firstRun>>

\* the loop is exhausted: the averages and the report
MonteCarloFinish ==
    /\ pc = "mc_loop"
    /\ ~(mc.i < call.num_simulations)
    /\ LET rep == Report(mc, call.num_simulations)
       IN  /\ stats' = rep.stats
           /\ error' = rep.error
           /\ pc' = IF rep.error = "none" THEN "returned" ELSE "failed"
    /\ UNCHANGED <<rng, call, run, mc, firstRun>>

\* the call is over: its caller has the result or the exception, and the
\* frames of the call are gone
Return ==
    /\ pc \in {"returned", "failed"}
    /\ pc' = "idle"
    /\ call' = NoCall
    /\ run' = NoRun
    /\ mc' = NoMC
    /\ stats' = NoStats
    /\ error' = "none"
    /\ UNCHANGED <<rng, firstRun>>

Next ==
    \/ MainDetailed
    \/ MainMonteCarlo
    \/ MainInvalid
    \/ CallSimulateProject
    \/ CallMonteCarlo
    \/ MonteCarloIterate
    \/ MonteCarloFinish
    \/ Return

Spec == Init /\ [][Next]_vars

---------------------------------------------------------------------------
(* the scheduling algorithm on other task lists *)

Va(name, days, deps) == Task(name, Days(days), TRUE, 0, ProbDen, deps)

Nva(name, days, delay, prob, deps) ==
    Task(name, Days(days), FALSE, delay * LeanDen * ProbDen, prob, deps)

GraphSet ==
    { << Va("A", 2, <<"B">>), Va("B", 3, <<"A">>) >>,
      << Va("A", 2, <<>>), Nva("B", 1, 2, 8, <<"A", "D">>), Va("C", 3, <<"B">>),
         Va("D", 1, <<"C">>) >>,
      << Va("A", 2, <<>>), Nva("B", 1, 2, 8, <<"A">>), Va("C", 3, <<"B">>) >>,
      << Va("A", 2, <<>>), Nva("B", 1, 4, 8, <<"A">>), Va("C", 3, <<"A">>),
         Va("D", 1, <<"B", "C">>) >>,
      << Nva("B", 1, 4, 7, <<"A">>), Va("C", 3, <<"A">>), Va("A", 2, <<>>) >>,
      << Va("A", 2, <<>>), Va("B", 1, <<"Z">>) >> }

\* the body of simulate_project applied to a task list of GraphSet
ScheduleGraph ==
    /\ CanCall
    /\ \E tasks \in GraphSet :
          LET r == Schedule(tasks, rng)
          IN  /\ run' = r.run
              /\ rng' = r.rng
              /\ error' = r.run.error
              /\ pc' = IF r.run.error = "none" THEN "returned" ELSE "failed"
    /\ call' = [entry |-> "simulate_project", via |-> "api", num_simulations |-> 0,
                lean_improvement |-> 0]
    /\ UNCHANGED <<mc, stats, firstRun>>

NextGraph ==
    \/ ScheduleGraph
    \/ Return

SpecGraph == Init /\ [][NextGraph]_vars

---------------------------------------------------------------------------
(* properties *)

TaskNamed(tasks, name) == tasks[CHOOSE i \in 1..Len(tasks) : tasks[i].name = name]

Scheduled == run.called /\ run.error = "none"

DelayRealized ==
    \E i \in 1..Len(run.schedule) :
        run.schedule[i].duration > run.schedule[i].base_duration

SingleRunReturned ==
    /\ pc = "returned"
    /\ call.entry \in {"simulate_project", "run_detailed_simulation"}

\* the longest chain of base durations that ends with the task `name`
RECURSIVE BaseFinish(_, _)
BaseFinish(tasks, name) ==
    LET task == TaskNamed(tasks, name)
    IN  task.base_duration
        + (IF task.dependencies = <<>> THEN 0
           ELSE MaxOf({BaseFinish(tasks, dep) : dep \in Range(task.dependencies)}))

CriticalPath(tasks) ==
    MaxOf({BaseFinish(tasks, tasks[i].name) : i \in 1..Len(tasks)})

\* the tasks no other task depends on
Sinks(tasks) ==
    {tasks[i].name : i \in 1..Len(tasks)}
        \ UNION {Range(tasks[i].dependencies) : i \in 1..Len(tasks)}

\* C1: in every simulate_project call every task has a schedule entry whose
\* start is 0 without dependencies and otherwise the finish of one of its
\* dependencies and at least the finish of each of them, and whose finish
\* is start + realized duration.
C1_StartFinish ==
    Scheduled =>
        /\ Len(run.schedule) = Len(run.tasks)
        /\ \A i \in 1..Len(run.tasks) :
              LET task == run.tasks[i]
                  deps == Range(task.dependencies)
              IN  /\ HasEntry(run.schedule, task.name)
                  /\ LET e == Entry(run.schedule, task.name)
                     IN  /\ e.finish = e.start + e.duration
                         /\ deps = {} => e.start = 0
                         /\ \A dep \in deps :
                               /\ HasEntry(run.schedule, dep)
                               /\ e.start >= Entry(run.schedule, dep).finish
                         /\ deps # {} =>
                               \E dep \in deps : e.start = Entry(run.schedule, dep).finish

\* a run with a realized delay in which Acabamentos waits for the later of
\* its two dependencies
C1_Witness ==
    /\ Scheduled
    /\ DelayRealized
    /\ Entry(run.schedule, "Acabamentos").start
          > Entry(run.schedule, "Instalacoes").finish
    /\ Entry(run.schedule, "Acabamentos").start
          = Entry(run.schedule, "Alvenaria").finish

\* C2: total_value_added of every simulate_project call is 105 days, the
\* base durations of the value-adding tasks, whatever the draws and
\* whatever lean_improvement.
C2_ValueAdded ==
    Scheduled =>
        /\ run.total_value_added = Days(105)
        /\ run.total_value_added = Days(20 + 15 + 25 + 20 + 10 + 10 + 5)
        /\ run.total_value_added =
              SumSeq([i \in 1..Len(run.schedule) |->
                         IF run.schedule[i].value_added
                         THEN run.schedule[i].base_duration ELSE 0])
        /\ pc = "mc_loop" => mc.total_value_added = mc.i * Days(105)

C2_Witness ==
    /\ Scheduled
    /\ DelayRealized
    /\ run.total_duration > Days(110)
    /\ call.lean_improvement = 0

\* C3: with lean_improvement = 1 no non-value-adding task is delayed and
\* total_duration is the critical path of base durations, 110 days.
C3_LeanOne ==
    (Scheduled /\ call.lean_improvement = LeanDen) =>
        /\ ~DelayRealized
        /\ run.total_duration = CriticalPath(run.tasks)
        /\ run.total_duration = Days(20 + 10 + 5 + 15 + 25 + 20 + 10 + 5)
        /\ run.total_duration = Days(110)

C3_Witness ==
    /\ Scheduled
    /\ call.lean_improvement = LeanDen
    /\ SingleRunReturned
    /\ run.total_duration = Days(110)

\* C4: run_monte_carlo_simulation called with num_simulations <= 0 fails
\* with InvalidParameter.
C4_RejectsNonPositive ==
    (call.entry = "run_monte_carlo_simulation" /\ call.num_simulations <= 0
        /\ pc \in {"returned", "failed"}) =>
        /\ pc = "failed"
        /\ error = "InvalidParameter"

\* C5: a lean_improvement outside [0,1] that reaches simulate_project or
\* run_monte_carlo_simulation is rejected with InvalidParameter, and no
\* task list is ever built from it.
C5_RejectsLeanOutOfRange ==
    /\ (~InRange(call.lean_improvement) /\ pc \in {"returned", "failed"}) =>
          (pc = "failed" /\ error = "InvalidParameter")
    /\ ~InRange(call.lean_improvement) => ~run.called

\* the task list has a task that reaches itself through dependencies
RECURSIVE Reach(_, _, _)
Reach(tasks, from, n) ==
    IF n = 0 THEN from
    ELSE Reach(tasks,
               from \cup UNION {Range(tasks[i].dependencies) :
                                   i \in {j \in 1..Len(tasks) : tasks[j].name \in from}},
               n - 1)

HasCycle(tasks) ==
    \E i \in 1..Len(tasks) :
        tasks[i].name \in Reach(tasks, Range(tasks[i].dependencies), Len(tasks))

C7_MinMeanMax ==
    call.entry = "run_monte_carlo_simulation" =>
        /\ Len(mc.durations) = mc.i
        /\ mc.total_duration = SumSeq(mc.durations)
        /\ stats.printed =>
              /\ call.num_simulations >= 1
              /\ mc.i = call.num_simulations
              /\ stats.avg_duration.den = call.num_simulations
              /\ stats.avg_duration.num = SumSeq(mc.durations)
              /\ stats.min_duration * stats.avg_duration.den <= stats.avg_duration.num
              /\ stats.avg_duration.num <= stats.max_duration * stats.avg_duration.den
              /\ \A k \in 1..Len(mc.durations) :
                    /\ stats.min_duration <= mc.durations[k]
                    /\ mc.durations[k] <= stats.max_duration

\* a report over two runs of different durations
C7_Witness ==
    /\ stats.printed
    /\ call.num_simulations = 2
    /\ stats.min_duration < stats.max_duration
    /\ stats.min_duration * 2 < stats.avg_duration.num
    /\ stats.avg_duration.num < stats.max_duration * 2

\* C8: two single runs under the same seed and the same lean_improvement
\* give the same schedule, whatever ran before or between them.
C8_SameSeedSameSchedule ==
    (SingleRunReturned /\ firstRun.called
        /\ firstRun.seed = rng.tape
        /\ firstRun.lean_improvement = call.lean_improvement) =>
        run.schedule = firstRun.schedule

\* C9: total_duration is the greatest finish of the schedule, which is the
\* greatest finish among the tasks without dependents.
C9_TotalIsMaxFinish ==
    Scheduled =>
        /\ \A i \in 1..Len(run.schedule) : run.schedule[i].finish <= run.total_duration
        /\ \E name \in Sinks(run.tasks) :
              Entry(run.schedule, name).finish = run.total_duration
        /\ \A name \in Sinks(run.tasks) :
              Entry(run.schedule, name).finish <= run.total_duration

C9_Witness ==
    /\ Scheduled
    /\ SingleRunReturned
    /\ DelayRealized
    /\ run.total_duration = Entry(run.schedule, "Inspecao").finish
    /\ Sinks(run.tasks) = {"Inspecao"}

\* C10: simulate_duration leaves the generator alone and returns
\* base_duration for a value-adding task or a delay_factor <= 0; otherwise
\* it takes one draw, a second one exactly when the first is below
\* delay_probability, and returns a duration from base_duration to
\* base_duration + delay_factor.
C10_Sampler ==
    Scheduled =>
        /\ Len(run.drawn) = Len(run.order)
        /\ \A i \in 1..Len(run.order) :
              LET task == run.order[i]
                  d == run.drawn[i]
                  e == Entry(run.schedule, task.name)
              IN  /\ d.name = task.name
                  /\ d.after = (d.before + Len(d.draws)) % TapeLen
                  /\ \A k \in 1..Len(d.draws) :
                        d.draws[k] = rng.tape[((d.before + k - 1) % TapeLen) + 1]
                  /\ IF task.value_added \/ task.delay_factor <= 0
                     THEN /\ d.draws = <<>>
                          /\ e.duration = task.base_duration
                     ELSE /\ Len(d.draws) \in {1, 2}
                          /\ Len(d.draws) = 2 <=> d.draws[1] < task.delay_probability
                          /\ Len(d.draws) = 1 => e.duration = task.base_duration
                          /\ task.base_duration <= e.duration
                          /\ e.duration <= task.base_duration + task.delay_factor

\* one run in which a task took two draws and was delayed, and another
\* task took one draw
C10_Witness ==
    /\ Scheduled
    /\ \E i \in 1..Len(run.drawn) :
          /\ Len(run.drawn[i].draws) = 2
          /\ Entry(run.schedule, run.drawn[i].name).duration
                > Entry(run.schedule, run.drawn[i].name).base_duration
    /\ \E i \in 1..Len(run.drawn) : Len(run.drawn[i].draws) = 1

===========================================================================
